---- MODULE Spec2Model ----
(***************************************************************************)
(* pnpack: the `zip` command of src/src/pnpack.mts (lines 190-405).        *)
(*                                                                         *)
(* The model follows one process from the start of the yargs command       *)
(* handler to the end of the process.  JavaScript runs every callback to   *)
(* completion: an action is one callback, or one stretch of an async       *)
(* function between two suspension points, and an I/O completion can only  *)
(* be delivered while no JavaScript is running.                            *)
(*                                                                         *)
(* Strings are sequences of one-character strings, so that split, trim,    *)
(* replace, substring, endsWith, dirname and join are computed, not        *)
(* assumed.                                                                *)
(*                                                                         *)
(* Spec is the whole process.  LiveSpec is the pump from the end of stdout *)
(* on, with the fairness of the event loop.  PureSpec applies the parser   *)
(* of the output, the entry name and projectExists to inputs of their own. *)
(* Spec7z is createArchive of the 7zip variant (lines 39-107).             *)
(***************************************************************************)
EXTENDS Naturals, Integers, Sequences, FiniteSets, Bags

(***************************************************************************)
(* Bounds of the model.                                                    *)
(***************************************************************************)
\* the largest --concurrency value tried (0 and -1 are tried too)
MaxConcurrency == 2
\* the largest number of path lines `pnpm ls` prints after its first line
MaxLines == 2
\* the largest number of 'data' events the output of `pnpm ls` arrives in
MaxChunks == 1
\* the largest number of segments a path has below the workspace root
MaxDepth == 2
\* the largest number of characters of a project name
MaxNameLen == 2

(***************************************************************************)
(* Strings.                                                                *)
(***************************************************************************)
NL == "\n"

Whitespace == {" ", "\t", "\r", NL}

\* the index of the first occurrence of character c in s at or after i, 0 if none
RECURSIVE IndexOfChar(_, _, _)
IndexOfChar(s, c, i) ==
  IF i > Len(s) THEN 0
  ELSE IF s[i] = c THEN i
  ELSE IndexOfChar(s, c, i + 1)

\* String.prototype.split('\n'): always at least one piece
RECURSIVE Split(_, _)
Split(s, sep) ==
  LET i == IndexOfChar(s, sep, 1)
  IN  IF i = 0 THEN <<s>>
      ELSE <<SubSeq(s, 1, i - 1)>> \o Split(SubSeq(s, i + 1, Len(s)), sep)

RECURSIVE TrimStart(_)
TrimStart(s) ==
  IF s # <<>> /\ Head(s) \in Whitespace THEN TrimStart(Tail(s)) ELSE s

RECURSIVE TrimEnd(_)
TrimEnd(s) ==
  IF s # <<>> /\ s[Len(s)] \in Whitespace THEN TrimEnd(SubSeq(s, 1, Len(s) - 1)) ELSE s

\* String.prototype.trim
Trim(s) == TrimEnd(TrimStart(s))

\* pat occurs in s at index i
OccursAt(s, pat, i) ==
  /\ i + Len(pat) - 1 <= Len(s)
  /\ SubSeq(s, i, i + Len(pat) - 1) = pat

\* the index of the first occurrence of pat in s at or after i, 0 if none
RECURSIVE IndexOf(_, _, _)
IndexOf(s, pat, i) ==
  IF i + Len(pat) - 1 > Len(s) THEN 0
  ELSE IF OccursAt(s, pat, i) THEN i
  ELSE IndexOf(s, pat, i + 1)

\* String.prototype.replace(pat, '') with a string pattern: the first occurrence only
ReplaceFirst(s, pat) ==
  LET i == IndexOf(s, pat, 1)
  IN  IF i = 0 THEN s
      ELSE SubSeq(s, 1, i - 1) \o SubSeq(s, i + Len(pat), Len(s))

\* String.prototype.substring(1)
Substring1(s) == SubSeq(s, 2, Len(s))

\* String.prototype.endsWith
EndsWith(s, suffix) ==
  /\ Len(suffix) <= Len(s)
  /\ SubSeq(s, Len(s) - Len(suffix) + 1, Len(s)) = suffix

\* the index of the last "/" of s, 0 if none
RECURSIVE LastSlash(_, _)
LastSlash(s, i) ==
  IF i = 0 THEN 0
  ELSE IF s[i] = "/" THEN i
  ELSE LastSlash(s, i - 1)

RECURSIVE StripTrailingSlashes(_)
StripTrailingSlashes(s) ==
  IF s # <<>> /\ s[Len(s)] = "/" THEN StripTrailingSlashes(SubSeq(s, 1, Len(s) - 1)) ELSE s

\* path.dirname (posix) of a path that does not end with "/"
Dirname(p) ==
  LET i == LastSlash(p, Len(p))
      d == StripTrailingSlashes(SubSeq(p, 1, i - 1))
  IN  IF i = 0 THEN <<".">>
      ELSE IF d = <<>> THEN <<"/">>
      ELSE d

\* the segments of a path that path.normalize keeps: "" and "." dropped, ".."
\* removes the segment before it (kept when there is none and the path is relative)
RECURSIVE NormalizeSegments(_, _, _)
NormalizeSegments(segs, acc, absolute) ==
  IF segs = <<>> THEN acc
  ELSE LET h == Head(segs)
       IN  IF h = <<>> \/ h = <<".">> THEN NormalizeSegments(Tail(segs), acc, absolute)
           ELSE IF h = <<".", ".">>
                THEN IF acc # <<>> /\ acc[Len(acc)] # <<".", ".">>
                     THEN NormalizeSegments(Tail(segs), SubSeq(acc, 1, Len(acc) - 1), absolute)
                     ELSE IF absolute THEN NormalizeSegments(Tail(segs), acc, absolute)
                     ELSE NormalizeSegments(Tail(segs), Append(acc, h), absolute)
           ELSE NormalizeSegments(Tail(segs), Append(acc, h), absolute)

RECURSIVE JoinSegments(_)
JoinSegments(segs) ==
  IF segs = <<>> THEN <<>>
  ELSE IF Len(segs) = 1 THEN Head(segs)
  ELSE Head(segs) \o <<"/">> \o JoinSegments(Tail(segs))

\* path.normalize (posix)
Normalize(p) ==
  IF p = <<>> THEN <<".">>
  ELSE LET absolute == Head(p) = "/"
           trailing == p[Len(p)] = "/"
           body     == JoinSegments(NormalizeSegments(Split(p, "/"), <<>>, absolute))
       IN  IF body = <<>>
           THEN IF absolute THEN <<"/">> ELSE IF trailing THEN <<".", "/">> ELSE <<".">>
           ELSE (IF absolute THEN <<"/">> ELSE <<>>) \o body \o
                (IF trailing THEN <<"/">> ELSE <<>>)

\* path.join(a, b) (posix): the non-empty arguments joined by "/", then normalized
PathJoin(a, b) ==
  IF a = <<>> /\ b = <<>> THEN <<".">>
  ELSE IF a = <<>> THEN Normalize(b)
  ELSE IF b = <<>> THEN Normalize(a)
  ELSE Normalize(a \o <<"/">> \o b)

(***************************************************************************)
(* The environment: the command line, the file system and what the pnpm    *)
(* subprocesses print.                                                     *)
(***************************************************************************)
\* the values of --output tried
Outputs ==
  { <<"o", ".", "z", "i", "p">>,
    <<"o", ".", "t", "a", "r">>,
    <<"d", "/", "o", ".", "z", "i", "p">> }

\* the directories that exist for the access(outputDir) check
ExistingDirs == { <<".">> }

\* what `pnpm root` prints
RootOutput == <<"/", "r", NL>>

\* the first line `pnpm ls --parseable` prints (the project itself)
Header == <<"/", "p">>

PA == <<"/", "r", "/", "a">>
PB == <<"/", "r", "/", "b">>

\* the paths `pnpm ls --parseable` may print after its first line
PathPool == {PA, PB}

Kinds == {"missing", "file", "dir"}

\* what readdir returns for a directory
ReadDir(p) == IF p = PA THEN << <<"x">>, <<"y">> >> ELSE << <<"x">> >>

\* the sequences of at most n elements of S
RECURSIVE SeqsUpTo(_, _)
SeqsUpTo(S, n) ==
  IF n = 0 THEN { <<>> }
  ELSE LET shorter == SeqsUpTo(S, n - 1)
       IN  shorter \cup { Append(q, x) : q \in { r \in shorter : Len(r) = n - 1 }, x \in S }

\* the output of `pnpm ls --parseable`: the first line and one line per path
RECURSIVE LsLines(_)
LsLines(paths) ==
  IF paths = <<>> THEN <<>> ELSE Head(paths) \o <<NL>> \o LsLines(Tail(paths))

\* no function is applied on its own
NoCall == [op |-> "none"]

\* the 7zip variant is not run
NoRun == [pc |-> "none"]

\* the complete outputs tried: nothing at all, or the header and up to MaxLines paths
RawOutputs ==
  { <<>> } \cup { Header \o <<NL>> \o LsLines(paths) : paths \in SeqsUpTo(PathPool, MaxLines) }

\* how the `pnpm ls` subprocess ends: exit code 0 and a silent error stream, a
\* non-zero exit code, or exit code 0 after writing to its error stream
LsOutcomes == {"ok", "nonzero", "stderr"}

(***************************************************************************)
(* The state.                                                              *)
(***************************************************************************)
VARIABLES
  cli,              \* the position of the command handler (lines 374-398)
  procState,        \* "running" or "exited"
  exitCode,         \* the exit code of the process once it has exited
  checks,           \* the validations the handler has made, in order
  output,           \* --output
  concurrency,      \* --concurrency
  fs,               \* the kind of every path of PathPool on disk
  lsOutcome,        \* "running", or how the `pnpm ls` subprocess has ended
  lsSpawned,        \* spawn('pnpm', ['ls', ...]) has been called (line 296)
  outputFile,       \* the file at --output: "absent", "open" or "closed"
  runPromise,       \* the promise createArchive returned: "none" or "fulfilled"
  stdout,           \* the output of `pnpm ls` not yet delivered
  chunks,           \* the number of 'data' events delivered
  firstLine,        \* line 298
  allPaths,         \* line 292
  pump,             \* the position of the 'end' callback (lines 311-330)
  nextPath,         \* the index in allPaths of the next path of the for loop
  dispatchLog,      \* the paths addToArchive has been called with, in order of call
  runningPromises,  \* line 291: the indices in allPaths of its promises
  entries,          \* the bag of the archive.file(source, {name}) calls made
  warned,           \* the paths (by index) a console.warn skip notice names
  errored,          \* the paths (by index) a console.error of line 318 names
  rootFailed,       \* some getRootPath() of line 253 has rejected
  finalizeCalls,    \* the number of archive.finalize() calls
  archiveFailed,    \* the archive has emitted 'error'
  call,             \* the function applied on its own, its arguments and its result
  z7                \* the run of the 7zip variant of createArchive (lines 39-107)

vars ==
  << cli, procState, exitCode, checks, output, concurrency, fs, lsOutcome, lsSpawned,
     outputFile, runPromise, stdout, chunks, firstLine, allPaths, pump, nextPath, dispatchLog,
     runningPromises, entries, warned, errored, rootFailed, finalizeCalls, archiveFailed,
     call, z7 >>

envVars == << output, concurrency, fs, call, z7 >>

cliVars == << cli, checks >>

listVars == << stdout, chunks, firstLine, allPaths >>

pumpVars == << pump, nextPath, dispatchLog, runningPromises >>

archiveVars == << entries, warned, errored, rootFailed, finalizeCalls, archiveFailed >>

Init ==
  /\ cli = "projectExists"
  /\ procState = "running"
  /\ exitCode = 0
  /\ checks = <<>>
  /\ output \in Outputs
  /\ concurrency \in (-1)..MaxConcurrency
  /\ fs \in [PathPool -> Kinds]
  /\ lsOutcome = "running"
  /\ lsSpawned = FALSE
  /\ outputFile = "absent"
  /\ runPromise = "none"
  /\ stdout \in RawOutputs
  /\ chunks = 0
  /\ firstLine = TRUE
  /\ allPaths = <<>>
  /\ pump = "idle"
  /\ nextPath = 1
  /\ dispatchLog = <<>>
  /\ runningPromises = {}
  /\ entries = EmptyBag
  /\ warned = {}
  /\ errored = {}
  /\ rootFailed = FALSE
  /\ finalizeCalls = 0
  /\ archiveFailed = FALSE
  /\ call = NoCall
  /\ z7 = NoRun

(***************************************************************************)
(* The command handler (lines 374-398).                                    *)
(***************************************************************************)
\* process.exit(code), or the end of the process after an uncaught error
Exit(code) ==
  /\ procState' = "exited"
  /\ exitCode' = code

\* lines 375-380: projectExists resolves true or false, or rejects because
\* `pnpm list` failed; the handler then rejects and the process ends with code 1
CliProjectExists ==
  /\ procState = "running"
  /\ cli = "projectExists"
  /\ \E answer \in {"present", "absent", "rejected"} :
       /\ checks' = Append(checks, <<"project", answer = "present">>)
       /\ IF answer = "present"
          THEN /\ cli' = "extension"
               /\ UNCHANGED << procState, exitCode >>
          ELSE /\ cli' = "failed"
               /\ Exit(1)
  /\ UNCHANGED << envVars, lsOutcome, lsSpawned, outputFile, runPromise, listVars, pumpVars, archiveVars >>

\* line 383 without the test
AnyExtension(path) == TRUE

\* line 383
HasZipExtension(path) == EndsWith(path, <<".", "z", "i", "p">>)

\* lines 382-386
CliCheckExtension ==
  /\ procState = "running"
  /\ cli = "extension"
  /\ LET ok == HasZipExtension(output)
     IN  /\ checks' = Append(checks, <<"extension", ok>>)
         /\ IF ok
            THEN /\ cli' = "outputDir"
                 /\ UNCHANGED << procState, exitCode >>
            ELSE /\ cli' = "failed"
                 /\ Exit(1)
  /\ UNCHANGED << envVars, lsOutcome, lsSpawned, outputFile, runPromise, listVars, pumpVars, archiveVars >>

\* lines 388-395: the throw rejects the handler and the process ends with code 1
CliCheckOutputDir ==
  /\ procState = "running"
  /\ cli = "outputDir"
  /\ LET ok == Dirname(output) \in ExistingDirs
     IN  /\ checks' = Append(checks, <<"outputDir", ok>>)
         /\ IF ok
            THEN /\ cli' = "createArchive"
                 /\ UNCHANGED << procState, exitCode >>
            ELSE /\ cli' = "failed"
                 /\ Exit(1)
  /\ UNCHANGED << envVars, lsOutcome, lsSpawned, outputFile, runPromise, listVars, pumpVars, archiveVars >>

\* line 397 and lines 279-311: createArchive opens the output file, spawns
\* `pnpm ls`, registers its callbacks and returns; it awaits nothing, so the
\* promise it returns is fulfilled and the handler's await completes
CreateArchive ==
  /\ procState = "running"
  /\ cli = "createArchive"
  /\ cli' = "returned"
  /\ outputFile' = "open"
  /\ lsSpawned' = TRUE
  /\ runPromise' = "fulfilled"
  /\ pump' = "listing"
  /\ UNCHANGED << procState, exitCode, checks, envVars, lsOutcome, listVars, nextPath, dispatchLog,
                  runningPromises, archiveVars >>

(***************************************************************************)
(* The output of `pnpm ls` (lines 298-309).                                *)
(***************************************************************************)
\* lines 302-308: the for loop of the 'data' callback over the lines of one chunk
RECURSIVE PushLines(_, _, _)
PushLines(lines, first, paths) ==
  IF lines = <<>> THEN [firstLine |-> first, allPaths |-> paths]
  ELSE IF first THEN PushLines(Tail(lines), FALSE, paths)
  ELSE PushLines(Tail(lines), FALSE, Append(paths, Trim(Head(lines))))

\* lines 300-309: the 'data' callback
OnData(chunk, first, paths) == PushLines(Split(chunk, NL), first, paths)

\* a 'data' event delivers a non-empty prefix of what is left of the output;
\* the last of MaxChunks events delivers all of it
StdoutData ==
  /\ procState = "running"
  /\ pump = "listing"
  /\ stdout # <<>>
  /\ chunks < MaxChunks
  /\ \E n \in 1..Len(stdout) :
       /\ chunks + 1 = MaxChunks => n = Len(stdout)
       /\ LET after == OnData(SubSeq(stdout, 1, n), firstLine, allPaths)
          IN  /\ firstLine' = after.firstLine
              /\ allPaths' = after.allPaths
       /\ stdout' = SubSeq(stdout, n + 1, Len(stdout))
  /\ chunks' = chunks + 1
  /\ UNCHANGED << procState, exitCode, cliVars, envVars, lsOutcome, lsSpawned, outputFile, runPromise,
                  pumpVars, archiveVars >>

(***************************************************************************)
(* The pump: the 'end' callback (lines 311-330).                           *)
(***************************************************************************)
\* line 311: stdout has ended; the for loop starts
StdoutEnd ==
  /\ procState = "running"
  /\ pump = "listing"
  /\ stdout = <<>>
  /\ lsOutcome # "running"
  /\ pump' = "loop"
  /\ nextPath' = 1
  /\ UNCHANGED << procState, exitCode, cliVars, envVars, lsOutcome, lsSpawned, outputFile, runPromise,
                  listVars, dispatchLog, runningPromises, archiveVars >>

\* line 313 with > for >=
AtCeilingOffByOne(size, ceiling) == size > ceiling

\* line 313 with the promise about to be added counted in
AtCeilingEarly(size, ceiling) == size + 1 >= ceiling

\* line 313
AtCeiling(size, ceiling) == size >= ceiling

\* lines 360-366 and 397 with values below 1 raised to 1
ValidatedConcurrency(option) == IF option < 1 THEN 1 ELSE option

\* lines 360-366 and 397: the value of --concurrency is the ceiling as it is
PassedConcurrency(option) == option

\* lines 312-315: the head of the for loop with a path left, and the test of the ceiling
PumpCheck ==
  /\ procState = "running"
  /\ pump = "loop"
  /\ nextPath <= Len(allPaths)
  /\ pump' = IF AtCeiling(Cardinality(runningPromises), PassedConcurrency(concurrency))
              THEN "race" ELSE "dispatch"
  /\ UNCHANGED << procState, exitCode, cliVars, envVars, lsOutcome, lsSpawned, outputFile, runPromise,
                  listVars, nextPath, dispatchLog, runningPromises, archiveVars >>

\* lines 317-324: addToArchive is called for the path and its promise joins the set
PumpDispatch ==
  /\ procState = "running"
  /\ pump = "dispatch"
  /\ runningPromises' = runningPromises \cup {nextPath}
  /\ nextPath' = nextPath + 1
  /\ dispatchLog' = Append(dispatchLog, allPaths[nextPath])
  /\ pump' = "loop"
  /\ UNCHANGED << procState, exitCode, cliVars, envVars, lsOutcome, lsSpawned, outputFile, runPromise,
                  listVars, archiveVars >>

\* line 327: the for loop is over
PumpAwaitAll ==
  /\ procState = "running"
  /\ pump = "loop"
  /\ nextPath > Len(allPaths)
  /\ pump' = "all"
  /\ UNCHANGED << procState, exitCode, cliVars, envVars, lsOutcome, lsSpawned, outputFile, runPromise,
                  listVars, nextPath, dispatchLog, runningPromises, archiveVars >>

\* line 327 without the await
NotAwaited(running) == TRUE

\* line 327: Promise.all over the set is fulfilled once the set has emptied
\* (every promise in it is fulfilled, and line 324 has removed it)
AllSettled(running) == running = {}

\* lines 327-329: every promise of the set is fulfilled; finalize
PumpFinalize ==
  /\ procState = "running"
  /\ pump = "all"
  /\ AllSettled(runningPromises)
  /\ finalizeCalls' = finalizeCalls + 1
  /\ pump' = "closing"
  /\ UNCHANGED << procState, exitCode, cliVars, envVars, lsOutcome, lsSpawned, outputFile, runPromise,
                  listVars, nextPath, dispatchLog, runningPromises, entries, warned, errored, rootFailed,
                  archiveFailed >>

(***************************************************************************)
(* addToArchive (lines 239-271).                                           *)
(***************************************************************************)
FsKind(p) == IF p \in DOMAIN fs THEN fs[p] ELSE "missing"

\* lines 245-247 without the test
AccessUnchecked(kind) == TRUE

\* lines 245-247: access(absolutePath) succeeds
AccessOk(kind) == kind # "missing"

\* line 254 without substring(1)
RelativePathUncut(absolutePath, rootPath) == ReplaceFirst(absolutePath, rootPath)

\* line 254
RelativePath(absolutePath, rootPath) == Substring1(ReplaceFirst(absolutePath, rootPath))

\* lines 265-269: one archive.file call per item of the directory
RECURSIVE DirectoryEntries(_, _, _)
DirectoryEntries(absolutePath, relativePath, items) ==
  IF items = <<>> THEN <<>>
  ELSE << [source |-> PathJoin(absolutePath, Head(items)),
           name   |-> PathJoin(relativePath, Head(items))] >>
       \o DirectoryEntries(absolutePath, relativePath, Tail(items))

\* lines 262-270 with a directory added as one entry, like a file
EntriesOfFlat(absolutePath, relativePath, kind) ==
  IF kind \in {"file", "dir"} THEN << [source |-> absolutePath, name |-> relativePath] >>
  ELSE <<>>

\* lines 262-270
EntriesOf(absolutePath, relativePath, kind) ==
  IF kind = "file" THEN << [source |-> absolutePath, name |-> relativePath] >>
  ELSE IF kind = "dir" THEN DirectoryEntries(absolutePath, relativePath, ReadDir(absolutePath))
  ELSE <<>>

\* the whole of addToArchive for one path: how its promise settles, the
\* archive.file calls it makes and whether it warns.  failure is "root" when
\* getRootPath rejects (line 253), "fs" when stat or readdir rejects (lines 256,
\* 265) and "none" otherwise.  Every archive.file call is made after the last
\* await, so the awaits in between change nothing another callback can see.
AddToArchive(absolutePath, failure) ==
  LET kind == FsKind(absolutePath)
  IN  IF ~AccessOk(kind)
      THEN [result |-> "fulfilled", adds |-> <<>>, warn |-> TRUE, root |-> FALSE]
      ELSE IF failure = "root"
      THEN [result |-> "rejected", adds |-> <<>>, warn |-> FALSE, root |-> TRUE]
      ELSE IF failure = "fs" \/ kind = "missing"
      THEN [result |-> "rejected", adds |-> <<>>, warn |-> FALSE, root |-> FALSE]
      ELSE [result |-> "fulfilled",
            adds   |-> EntriesOf(absolutePath, RelativePath(absolutePath, Trim(RootOutput)), kind),
            warn   |-> FALSE, root |-> FALSE]

\* the bag of the elements of a sequence
RECURSIVE BagOfSeq(_)
BagOfSeq(q) ==
  IF q = <<>> THEN EmptyBag ELSE SetToBag({Head(q)}) (+) BagOfSeq(Tail(q))

\* lines 317-321 without the catch
Uncaught(result) == result

\* lines 317-321: the catch turns a rejection into a fulfilled promise
Caught(result) == "fulfilled"

\* line 314 were no settlement to resolve the race
RaceResolvedByNone(i, running) == FALSE

\* line 314 were it to await the oldest promise of the set
RaceResolvedByOldest(i, running) == i \in running /\ \A j \in running : i <= j

\* line 314: Promise.race is resolved by the first promise of the set to be
\* fulfilled, whichever it is
RaceResolvedBy(i, running) == i \in running

\* the dispatched addToArchive of path i settles while the pump waits (line
\* 314 or 327).  The promise of line 317 is fulfilled, the callback of line 324
\* removes it from the set, and a pump waiting on Promise.race resumes at line
\* 317.  Were the promise rejected, line 324 would not remove it, the await
\* would throw out of the 'end' callback and the unhandled rejection would end
\* the process.
Settle(i) ==
  /\ procState = "running"
  /\ pump \in {"race", "all"}
  /\ i \in runningPromises
  /\ \E failure \in {"none", "root", "fs"} :
       /\ ~AccessOk(FsKind(allPaths[i])) => failure = "none"
       /\ LET done    == AddToArchive(allPaths[i], failure)
              settled == Caught(done.result)
          IN  /\ entries' = entries (+) BagOfSeq(done.adds)
              /\ warned' = IF done.warn THEN warned \cup {i} ELSE warned
              /\ errored' = IF done.result = "rejected" /\ settled = "fulfilled"
                            THEN errored \cup {i} ELSE errored
              /\ rootFailed' = (rootFailed \/ done.root)
              /\ IF settled = "fulfilled"
                 THEN /\ runningPromises' = runningPromises \ {i}
                      /\ pump' = IF pump = "race" /\ RaceResolvedBy(i, runningPromises)
                                 THEN "dispatch" ELSE pump
                      /\ UNCHANGED << procState, exitCode >>
                 ELSE /\ pump' = "crashed"
                      /\ Exit(1)
                      /\ UNCHANGED runningPromises
  /\ UNCHANGED << cliVars, envVars, lsOutcome, lsSpawned, outputFile, runPromise, listVars,
                  nextPath, dispatchLog, finalizeCalls, archiveFailed >>

\* some dispatched addToArchive settles
AddSettles == \E i \in runningPromises : Settle(i)

(***************************************************************************)
(* The archive and the end of the process.                                 *)
(***************************************************************************)
\* line 287: the archive emits 'error' and archivePromise is rejected.  The
\* archive works, and can fail, once it has an entry or is finalized.  Before
\* line 329 nothing handles the rejection; at line 329 it is thrown out of the
\* 'end' callback, whose promise nothing handles either: the unhandled
\* rejection ends the process with code 1.  The event is delivered while no
\* JavaScript runs: when the pump awaits a promise that is not yet fulfilled.
ArchiveError ==
  /\ procState = "running"
  /\ outputFile = "open"
  /\ \/ pump \in {"race", "closing"}
     \/ pump = "all" /\ ~AllSettled(runningPromises)
  /\ BagCardinality(entries) > 0 \/ finalizeCalls > 0
  /\ archiveFailed' = TRUE
  /\ Exit(1)
  /\ UNCHANGED << cliVars, envVars, lsOutcome, lsSpawned, outputFile, runPromise, listVars, pumpVars,
                  entries, warned, errored, rootFailed, finalizeCalls >>

\* line 296: the `pnpm ls` subprocess ends.  No callback is registered for its
\* exit code or for its error stream, so the place of its exit among the other
\* events changes nothing the program does: it is taken once the output has
\* been read and before stdout ends.
LsExit ==
  /\ procState = "running"
  /\ lsSpawned
  /\ lsOutcome = "running"
  /\ pump = "listing"
  /\ stdout = <<>>
  /\ lsOutcome' \in LsOutcomes
  /\ UNCHANGED << procState, exitCode, cliVars, envVars, lsSpawned, outputFile, runPromise,
                  listVars, pumpVars, archiveVars >>

\* lines 285 and 329: the output stream emits 'close' after finalize; the
\* 'end' callback is over
OutputClose ==
  /\ procState = "running"
  /\ pump = "closing"
  /\ outputFile' = "closed"
  /\ pump' = "done"
  /\ UNCHANGED << procState, exitCode, cliVars, envVars, lsOutcome, lsSpawned, runPromise, listVars,
                  nextPath, dispatchLog, runningPromises, archiveVars >>

\* nothing is left to run: the process ends with the default exit code
ProcessExit ==
  /\ procState = "running"
  /\ pump = "done"
  /\ Exit(0)
  /\ UNCHANGED << cliVars, envVars, lsOutcome, lsSpawned, outputFile, runPromise, listVars, pumpVars,
                  archiveVars >>

Next ==
  \/ CliProjectExists
  \/ CliCheckExtension
  \/ CliCheckOutputDir
  \/ CreateArchive
  \/ StdoutData
  \/ StdoutEnd
  \/ PumpCheck
  \/ PumpDispatch
  \/ PumpAwaitAll
  \/ PumpFinalize
  \/ AddSettles
  \/ LsExit
  \/ ArchiveError
  \/ OutputClose
  \/ ProcessExit

Spec == Init /\ [][Next]_vars

(***************************************************************************)
(* The pump from the end of stdout on, under the scheduling of Node.js.    *)
(***************************************************************************)
\* the state when the last 'data' event has been delivered and `pnpm ls` has
\* ended: the handler has made its three checks and called createArchive
\* (lines 374-397), and the output, delivered whole, has been read into allPaths
LiveInit ==
  /\ cli = "returned"
  /\ procState = "running"
  /\ exitCode = 0
  /\ checks = << <<"project", TRUE>>, <<"extension", TRUE>>, <<"outputDir", TRUE>> >>
  /\ output = <<"o", ".", "z", "i", "p">>
  /\ concurrency \in (-1)..MaxConcurrency
  /\ fs \in [PathPool -> Kinds]
  /\ lsOutcome \in LsOutcomes
  /\ lsSpawned = TRUE
  /\ outputFile = "open"
  /\ runPromise = "fulfilled"
  /\ stdout = <<>>
  /\ \E raw \in RawOutputs :
       /\ chunks = IF raw = <<>> THEN 0 ELSE 1
       /\ firstLine = (raw = <<>>)
       /\ allPaths = IF raw = <<>> THEN <<>> ELSE OnData(raw, TRUE, <<>>).allPaths
  /\ pump = "listing"
  /\ nextPath = 1
  /\ dispatchLog = <<>>
  /\ runningPromises = {}
  /\ entries = EmptyBag
  /\ warned = {}
  /\ errored = {}
  /\ rootFailed = FALSE
  /\ finalizeCalls = 0
  /\ archiveFailed = FALSE
  /\ call = NoCall
  /\ z7 = NoRun

LiveNext ==
  \/ StdoutEnd
  \/ PumpCheck
  \/ PumpDispatch
  \/ PumpAwaitAll
  \/ PumpFinalize
  \/ AddSettles
  \/ ArchiveError
  \/ OutputClose
  \/ ProcessExit

\* Node.js delivers the 'end' event of stdout and the 'close' event of the
\* output stream, runs every continuation of the 'end' callback that is
\* ready, and ends the process when nothing is left; every dispatched
\* addToArchive settles as long as the process runs.
Fairness ==
  /\ WF_vars(StdoutEnd)
  /\ WF_vars(PumpCheck)
  /\ WF_vars(PumpDispatch)
  /\ WF_vars(PumpAwaitAll)
  /\ WF_vars(PumpFinalize)
  /\ WF_vars(AddSettles)
  /\ WF_vars(OutputClose)
  /\ WF_vars(ProcessExit)

LiveSpec == LiveInit /\ [][LiveNext]_vars /\ Fairness

(***************************************************************************)
(* The functions of the program applied on their own: the process has not  *)
(* started, call holds the arguments and then the result.                  *)
(***************************************************************************)
\* the process before the command handler runs, with nothing to list
Dormant ==
  /\ cli = "projectExists"
  /\ procState = "running"
  /\ exitCode = 0
  /\ checks = <<>>
  /\ output = <<"o", ".", "z", "i", "p">>
  /\ concurrency = 1
  /\ fs = [p \in PathPool |-> "file"]
  /\ lsOutcome = "running"
  /\ lsSpawned = FALSE
  /\ outputFile = "absent"
  /\ runPromise = "none"
  /\ stdout = <<>>
  /\ chunks = 0
  /\ firstLine = TRUE
  /\ allPaths = <<>>
  /\ pump = "idle"
  /\ nextPath = 1
  /\ dispatchLog = <<>>
  /\ runningPromises = {}
  /\ entries = EmptyBag
  /\ warned = {}
  /\ errored = {}
  /\ rootFailed = FALSE
  /\ finalizeCalls = 0
  /\ archiveFailed = FALSE

\* the variables of the process
mainVars ==
  << cli, procState, exitCode, checks, output, concurrency, fs, lsOutcome, lsSpawned,
     outputFile, runPromise, stdout, chunks, firstLine, allPaths, pump, nextPath, dispatchLog,
     runningPromises, entries, warned, errored, rootFailed, finalizeCalls, archiveFailed >>

\* the outputs of `pnpm ls` parsed: those of RawOutputs and one whose path
\* line has blanks around the path
ParseOutputs ==
  RawOutputs \cup { Header \o <<NL, " ">> \o PA \o <<" ", NL>> }

\* lines 298-309: the output arrives in one 'data' event, or in two when cut
\* is a position inside it; the flag and the list are those of the closure
ParseInChunks(raw, cut) ==
  IF raw = <<>> THEN <<>>
  ELSE IF cut = 0 THEN OnData(raw, TRUE, <<>>).allPaths
  ELSE LET one == OnData(SubSeq(raw, 1, cut), TRUE, <<>>)
       IN  OnData(SubSeq(raw, cut + 1, Len(raw)), one.firstLine, one.allPaths).allPaths

\* every output with every position of a cut: 0 is no cut
ParseCalls ==
  UNION { { [op |-> "parse", raw |-> raw, cut |-> cut, done |-> FALSE, allPaths |-> <<>>] :
              cut \in 0..(IF raw = <<>> THEN 0 ELSE Len(raw) - 1) } :
          raw \in ParseOutputs }

\* the 'data' events of one run of `pnpm ls` are delivered
ApplyParse ==
  /\ call.op = "parse"
  /\ ~call.done
  /\ call' = [call EXCEPT !.done = TRUE, !.allPaths = ParseInChunks(call.raw, call.cut)]
  /\ UNCHANGED << mainVars, z7 >>

\* the root strings tried: the directory /r, without and with a final separator
RootStrings == { <<"/", "r">>, <<"/", "r", "/">> }

\* the names of the files and directories below the root
SegmentPool == { <<"a">>, <<"b", "c">>, <<"a", ".", ".">> }

\* the absolute paths of the descendants of /r, at most MaxDepth segments down
DescendantPaths ==
  { <<"/", "r", "/">> \o JoinSegments(segs) :
      segs \in SeqsUpTo(SegmentPool, MaxDepth) \ { <<>> } }

NameCalls ==
  { [op |-> "relativePath", rootPath |-> root, absolutePath |-> abs, done |-> FALSE,
     relativePath |-> <<>>] : root \in RootStrings, abs \in DescendantPaths }

\* lines 253-254: the entry name of one path
ApplyRelativePath ==
  /\ call.op = "relativePath"
  /\ ~call.done
  /\ call' = [call EXCEPT !.done = TRUE,
                          !.relativePath = RelativePath(call.absolutePath, call.rootPath)]
  /\ UNCHANGED << mainVars, z7 >>

\* the characters of a project name tried; "." is the one character a
\* package name may hold that a regular expression reads as a pattern
NameChars == {"a", "b", "."}

ProjectNames == SeqsUpTo(NameChars, MaxNameLen) \ { <<>> }

\* what `pnpm list --filter` prints: nothing, or an optional first line and a
\* line made of a package name, "@" and its version
ListOutputs ==
  { <<>> } \cup
  { first \o pkg \o <<"@", "1", NL>> :
      first \in { <<>>, <<"L", NL>> }, pkg \in ProjectNames }

\* one character of a pattern made of literal characters and "."
RegexCharMatches(pc, c) == IF pc = "." THEN c \notin {NL, "\r"} ELSE pc = c

\* the pattern matches the text from index i
RegexMatchesAt(pat, text, i) ==
  /\ i + Len(pat) - 1 <= Len(text)
  /\ \A k \in 1..Len(pat) : RegexCharMatches(pat[k], text[i + k - 1])

\* where "^" matches under the flag 'm': at the start and after a line end
LineStarts(text) ==
  {1} \cup { i + 1 : i \in { j \in 1..Len(text) : text[j] \in {NL, "\r"} } }

\* lines 333-337 (and 109-113): new RegExp(`^${projectName}@`, 'm').test(output),
\* output being the trimmed output of `pnpm list --filter projectName`
ProjectExists(projectName, listOutput) ==
  \E i \in LineStarts(Trim(listOutput)) :
    RegexMatchesAt(projectName \o <<"@">>, Trim(listOutput), i)

ExistsCalls ==
  { [op |-> "projectExists", projectName |-> name, listOutput |-> out, done |-> FALSE,
     exists |-> FALSE] : name \in ProjectNames, out \in ListOutputs }

\* lines 333-337
ApplyProjectExists ==
  /\ call.op = "projectExists"
  /\ ~call.done
  /\ call' = [call EXCEPT !.done = TRUE,
                          !.exists = ProjectExists(call.projectName, call.listOutput)]
  /\ UNCHANGED << mainVars, z7 >>

PureInit ==
  /\ Dormant
  /\ z7 = NoRun
  /\ call \in ParseCalls \cup NameCalls \cup ExistsCalls

PureNext ==
  \/ ApplyParse
  \/ ApplyRelativePath
  \/ ApplyProjectExists

PureSpec == PureInit /\ [][PureNext]_vars

(***************************************************************************)
(* The 7zip variant of createArchive (lines 39-107), from the call of line *)
(* 174 to the end of the process.                                          *)
(***************************************************************************)
\* the exit codes a subprocess ends with
ExitCodes == {0, 1, 2}

\* lines 49-51: every line of a chunk is added to the Set, which keeps the
\* order of first insertion
RECURSIVE AddLines(_, _)
AddLines(lines, unique) ==
  IF lines = <<>> THEN unique
  ELSE AddLines(Tail(lines),
                IF \E k \in 1..Len(unique) : unique[k] = Head(lines)
                THEN unique ELSE Append(unique, Head(lines)))

\* Array.prototype.join('\n')
RECURSIVE JoinLines(_)
JoinLines(lines) ==
  IF lines = <<>> THEN <<>>
  ELSE IF Len(lines) = 1 THEN Head(lines)
  ELSE Head(lines) \o <<NL>> \o JoinLines(Tail(lines))

Init7z ==
  /\ Dormant
  /\ call = NoCall
  /\ z7 \in { [pc |-> "start", stdout |-> raw, chunks |-> 0, uniqueLines |-> <<>>,
               lsClosed |-> FALSE, lsCode |-> 0, listFile |-> "absent",
               listContent |-> <<>>, spawned7z |-> FALSE, closed7z |-> FALSE,
               code7z |-> 0, unlinkCalled |-> FALSE, warned |-> FALSE,
               examined |-> FALSE, exitCode |-> 0] : raw \in RawOutputs }

\* lines 43-45: `pnpm ls` is spawned and the list file is opened for writing
CreateLSFile ==
  /\ z7.pc = "start"
  /\ z7' = [z7 EXCEPT !.pc = "ls", !.listFile = "empty"]
  /\ UNCHANGED << mainVars, call >>

\* lines 47-52: a 'data' event delivers a non-empty prefix of what is left of
\* the output; the last of MaxChunks events delivers all of it
LsData ==
  /\ z7.pc = "ls"
  /\ z7.stdout # <<>>
  /\ z7.chunks < MaxChunks
  /\ \E n \in 1..Len(z7.stdout) :
       /\ z7.chunks + 1 = MaxChunks => n = Len(z7.stdout)
       /\ z7' = [z7 EXCEPT
                   !.uniqueLines = AddLines(Split(SubSeq(z7.stdout, 1, n), NL), z7.uniqueLines),
                   !.stdout = SubSeq(z7.stdout, n + 1, Len(z7.stdout)),
                   !.chunks = z7.chunks + 1]
  /\ UNCHANGED << mainVars, call >>

\* line 55 without the test
LsAnyCode(code) == TRUE

\* line 55
LsSucceeded(code) == code = 0

\* lines 54-63: `pnpm ls` closes once its output has been read.  With a code
\* other than 0 the promise is rejected, createArchive rejects at line 77 and
\* the catch of the handler (lines 175-180) ends the process with code 1;
\* with code 0 the list is handed to the file stream.
LsClose ==
  /\ z7.pc = "ls"
  /\ z7.stdout = <<>>
  /\ \E code \in ExitCodes :
       z7' = IF LsSucceeded(code)
             THEN [z7 EXCEPT !.lsClosed = TRUE, !.lsCode = code, !.pc = "writing"]
             ELSE [z7 EXCEPT !.lsClosed = TRUE, !.lsCode = code, !.pc = "exited",
                             !.exitCode = 1]
  /\ UNCHANGED << mainVars, call >>

\* lines 65-67: `pnpm ls` could not be spawned; the promise is rejected and the
\* handler ends the process with code 1
LsSpawnError ==
  /\ z7.pc = "ls"
  /\ z7.chunks = 0
  /\ z7' = [z7 EXCEPT !.pc = "exited", !.exitCode = 1]
  /\ UNCHANGED << mainVars, call >>

\* lines 58-61 and 77-90: the list is written, the promise is fulfilled with
\* the path of the file, and createArchive goes on to spawn 7z and returns
ListWritten ==
  /\ z7.pc = "writing"
  /\ z7' = [z7 EXCEPT !.listFile = "written", !.listContent = JoinLines(z7.uniqueLines),
                      !.spawned7z = TRUE, !.pc = "7z"]
  /\ UNCHANGED << mainVars, call >>

\* lines 90-92: 7z closes with some code; the callback calls unlink and awaits it
SevenClose ==
  /\ z7.pc = "7z"
  /\ \E code \in ExitCodes :
       z7' = [z7 EXCEPT !.closed7z = TRUE, !.code7z = code, !.unlinkCalled = TRUE,
                        !.pc = "unlinking"]
  /\ UNCHANGED << mainVars, call >>

\* lines 92-105: unlink removes the file, or it rejects and the catch logs a
\* warning; then the exit code of 7z is examined.  The throw of line 102
\* rejects the promise of the callback, which nothing handles: the process
\* ends with code 1.  With code 0 getRootPath is called.
UnlinkSettles ==
  /\ z7.pc = "unlinking"
  /\ \E removed \in BOOLEAN :
       z7' = [z7 EXCEPT !.listFile = IF removed THEN "removed" ELSE z7.listFile,
                        !.warned = ~removed,
                        !.examined = TRUE,
                        !.pc = IF z7.code7z # 0 THEN "exited" ELSE "root",
                        !.exitCode = IF z7.code7z # 0 THEN 1 ELSE 0]
  /\ UNCHANGED << mainVars, call >>

\* line 105: `pnpm root` ends; a rejection is unhandled and ends the process
\* with code 1
RootSettles ==
  /\ z7.pc = "root"
  /\ \E ok \in BOOLEAN :
       z7' = [z7 EXCEPT !.pc = IF ok THEN "done" ELSE "exited",
                        !.exitCode = IF ok THEN 0 ELSE 1]
  /\ UNCHANGED << mainVars, call >>

Next7z ==
  \/ CreateLSFile
  \/ LsData
  \/ LsClose
  \/ LsSpawnError
  \/ ListWritten
  \/ SevenClose
  \/ UnlinkSettles
  \/ RootSettles

Spec7z == Init7z /\ [][Next7z]_vars

(***************************************************************************)
(* The claims.                                                             *)
(***************************************************************************)
\* the paths (by index) addToArchive has been called for
Dispatched == 1..(nextPath - 1)

\* the dispatched paths whose promise has settled
Settled == Dispatched \ runningPromises

\* the for loop of line 312 has gone through every path
AllDispatched == pump \in {"all", "closing", "done"} /\ nextPath > Len(allPaths)

\* C1: with a concurrency ceiling of at least 1, the in-flight set
\* runningPromises never holds more than ceiling add operations.
C1_InFlightWithinCeiling ==
  concurrency >= 1 => Cardinality(runningPromises) <= concurrency

\* the pump is suspended on Promise.race with the set full and a path left
C1_Witness ==
  /\ concurrency = MaxConcurrency
  /\ pump = "race"
  /\ Cardinality(runningPromises) = concurrency
  /\ nextPath <= Len(allPaths)

\* C2: the promise createArchive returns is fulfilled only once every path is
\* dispatched, every operation has settled, finalize has been called and the
\* output stream has closed.
C2_RunCompletesLast ==
  runPromise = "fulfilled" =>
    /\ AllDispatched
    /\ runningPromises = {}
    /\ finalizeCalls >= 1
    /\ outputFile = "closed"

\* the 'end' callback is over, or it can go on: a step of it, or the
\* settlement or the close it waits for, is enabled
PumpCanProceed ==
  \/ pump = "done"
  \/ ENABLED (PumpCheck \/ PumpDispatch \/ PumpAwaitAll \/ PumpFinalize \/ AddSettles
              \/ OutputClose)

\* C3: an addToArchive that throws is caught and never aborts the run: its
\* promise leaves the set like any other, the pump is never thrown out of its
\* loop and can always go on, and a process that ends after such a failure
\* without an archive error has dispatched every path, called finalize and
\* ends with code 0.
C3_AddFailureNeverAborts ==
  /\ pump # "crashed"
  /\ errored \subseteq Settled
  /\ (errored # {} /\ procState = "running") => PumpCanProceed
  /\ (errored # {} /\ procState = "exited" /\ ~archiveFailed) =>
       /\ AllDispatched
       /\ finalizeCalls = 1
       /\ exitCode = 0

\* the first path failed, a later path was dispatched after it, and the run ended well
C3_Witness ==
  /\ 1 \in errored
  /\ Len(allPaths) >= 2
  /\ BagCardinality(entries) > 0
  /\ finalizeCalls = 1
  /\ procState = "exited"
  /\ exitCode = 0

\* a fatal error has occurred: the archive emitted 'error', or `pnpm ls` has
\* exited non-zero or after writing to its error stream
FatalError ==
  \/ archiveFailed
  \/ lsOutcome \in {"nonzero", "stderr"}

\* C4: after a fatal error no new path is dispatched and the run is not
\* reported as a success: the process does not end with code 0.
C4_FatalNeverSuccess ==
  FatalError =>
    /\ pump # "dispatch"
    /\ ~(procState = "exited" /\ exitCode = 0)

\* C5: when `pnpm ls` exits non-zero or writes to its error stream, none of
\* the paths it printed is dispatched and the process does not end with code 0.
C5_LsFailureDispatchesNothing ==
  lsOutcome \in {"nonzero", "stderr"} =>
    /\ \A i \in Dispatched : allPaths[i] \notin PathPool
    /\ ~(procState = "exited" /\ exitCode = 0)

\* C6: a failed `pnpm root` aborts the run before any archive work: the
\* output file is not yet created, and the failure is not logged as the error
\* of one entry after which the run goes on to finalize.
C6_RootFailureIsFatal ==
  rootFailed =>
    /\ outputFile = "absent"
    /\ errored = {}
    /\ finalizeCalls = 0

AllChecks == << "project", "extension", "outputDir" >>

\* C7: the handler checks the project, then the extension, then the output
\* directory, all before createArchive; `pnpm ls` is spawned and the output
\* file created only after the three have passed, and a failed check ends the
\* process with code 1 with neither.
C7_ValidationBeforeArchive ==
  /\ Len(checks) <= Len(AllChecks)
  /\ \A n \in 1..Len(checks) :
       /\ checks[n][1] = AllChecks[n]
       /\ n < Len(checks) => checks[n][2]
  /\ (lsSpawned \/ outputFile # "absent" \/ pump # "idle") =>
       /\ Len(checks) = Len(AllChecks)
       /\ \A n \in 1..Len(checks) : checks[n][2]
       /\ EndsWith(output, <<".", "z", "i", "p">>)
       /\ Dirname(output) \in ExistingDirs
  /\ (\E n \in 1..Len(checks) : ~checks[n][2]) =>
       /\ procState = "exited"
       /\ exitCode = 1
       /\ ~lsSpawned
       /\ outputFile = "absent"

\* --output archive.tar: the extension check has failed and the process has ended
C7_Witness ==
  /\ Len(checks) = 2
  /\ ~checks[2][2]
  /\ ~EndsWith(output, <<".", "z", "i", "p">>)
  /\ procState = "exited"

\* the sources archive.file can be called with for path p
SourcesOf(p) == {p} \cup { PathJoin(p, ReadDir(p)[n]) : n \in 1..Len(ReadDir(p)) }

\* C8: for a path that is not on disk, addToArchive makes no archive.file
\* call and logs a warning, not an error; the run still ends with code 0
\* (unless the archive fails), with the entries of every other path whose add
\* did not throw.
C8_MissingPathSkipped ==
  /\ \A i \in Settled :
       FsKind(allPaths[i]) = "missing" =>
         /\ i \in warned
         /\ i \notin errored
         /\ \A e \in BagToSet(entries) : e.source \notin SourcesOf(allPaths[i])
  /\ \A i \in warned : FsKind(allPaths[i]) = "missing"
  /\ (warned # {} /\ procState = "exited" /\ ~archiveFailed) =>
       /\ exitCode = 0
       /\ finalizeCalls = 1
       /\ \A j \in 1..Len(allPaths) :
            (FsKind(allPaths[j]) = "file" /\ j \notin errored) =>
              \E e \in BagToSet(entries) : e.source = allPaths[j]

\* a listed path of the pool is missing, another is a file, and the run ended with code 0
C8_Witness ==
  /\ \E i \in warned : allPaths[i] \in PathPool
  /\ \E j \in 1..Len(allPaths) : FsKind(allPaths[j]) = "file" /\ j \notin errored
  /\ procState = "exited"
  /\ exitCode = 0

\* the number of elements of sequence q that equal x
RECURSIVE CountIn(_, _)
CountIn(q, x) ==
  IF q = <<>> THEN 0
  ELSE (IF Head(q) = x THEN 1 ELSE 0) + CountIn(Tail(q), x)

\* what one listed path should contribute: itself when a regular file, its
\* immediate children when a directory, nothing otherwise
ExpectedSources(p) ==
  IF FsKind(p) = "file" THEN <<p>>
  ELSE IF FsKind(p) = "dir" THEN [n \in 1..Len(ReadDir(p)) |-> PathJoin(p, ReadDir(p)[n])]
  ELSE <<>>

\* the number of times src is expected from the listed paths of indices in S
RECURSIVE ExpectedCount(_, _)
ExpectedCount(S, src) ==
  IF S = {} THEN 0
  ELSE LET i == CHOOSE x \in S : TRUE
       IN  CountIn(ExpectedSources(allPaths[i]), src) + ExpectedCount(S \ {i}, src)

AllSources == UNION { SourcesOf(p) : p \in PathPool }

\* the number of archive.file calls made with source src
RECURSIVE EntryCount(_, _)
EntryCount(E, src) ==
  IF E = {} THEN 0
  ELSE LET e == CHOOSE x \in E : TRUE
       IN  (IF e.source = src THEN CopiesIn(e, entries) ELSE 0) + EntryCount(E \ {e}, src)

\* C9 as stated: when the pump finalizes, the archive has received exactly one
\* entry per listed regular file, one per immediate child of every listed
\* directory and none for any other path.
C9_OneEntryPerPath ==
  finalizeCalls = 1 =>
    /\ \A src \in AllSources :
         EntryCount(BagToSet(entries), src) = ExpectedCount(1..Len(allPaths), src)
    /\ \A e \in BagToSet(entries) : e.source \in AllSources

\* C9 amended: the same of the listed paths whose add operation did not throw;
\* a path whose getRootPath, stat or readdir rejected contributes no entry.
C9_OneEntryPerAddedPath ==
  finalizeCalls = 1 =>
    /\ \A src \in AllSources :
         EntryCount(BagToSet(entries), src) = ExpectedCount((1..Len(allPaths)) \ errored, src)
    /\ \A e \in BagToSet(entries) : e.source \in AllSources

\* finalized with an expanded directory, a path whose add threw and a missing path
C9_Witness ==
  /\ finalizeCalls = 1
  /\ errored # {}
  /\ warned # {}
  /\ \E i \in 1..Len(allPaths) : FsKind(allPaths[i]) = "dir" /\ i \notin errored
  /\ BagCardinality(entries) >= 2

\* C10: a path that `pnpm ls` prints twice is dispatched once: no two
\* dispatched entries of the list are the same absolute path.
C10_DispatchedOnce ==
  \A i \in Dispatched, j \in Dispatched :
    (i # j /\ allPaths[i] \in PathPool) => allPaths[i] # allPaths[j]

\* the lines of text, trimmed, that are not empty
NonEmptyTrimmed(lines) ==
  SelectSeq([i \in 1..Len(lines) |-> Trim(lines[i])], LAMBDA l : l # <<>>)

\* C11: the path list is exactly the non-empty trimmed lines that follow the
\* first line of the complete output of `pnpm ls`: only the first line is
\* dropped, no empty string is a path, and the list is the same however the
\* output is cut into 'data' chunks.
C11_PathsAreLinesAfterFirst ==
  (call.op = "parse" /\ call.done) =>
    call.allPaths = NonEmptyTrimmed(Tail(Split(call.raw, NL)))

\* C12: the entry name of a descendant of the workspace root has no leading
\* separator and no '..' segment, also when the root string ends with a
\* separator.
C12_NameStaysInsideRoot ==
  (call.op = "relativePath" /\ call.done) =>
    /\ call.relativePath # <<>> => Head(call.relativePath) # "/"
    /\ \A i \in 1..Len(Split(call.relativePath, "/")) :
         Split(call.relativePath, "/")[i] # <<".", ".">>

\* the entry names the archive has been given
EntryNames == { e.name : e \in BagToSet(entries) }

\* a path of the list without the root /r and the separator after it
BelowRoot(p) == SubSeq(p, Len(Trim(RootOutput)) + 2, Len(p))

\* the entry names of one path of the list: they depend on the path, the root
\* and the file system only
NamesOf(p) ==
  IF FsKind(p) = "file" THEN { BelowRoot(p) }
  ELSE IF FsKind(p) = "dir"
  THEN { BelowRoot(p) \o <<"/">> \o ReadDir(p)[k] : k \in 1..Len(ReadDir(p)) }
  ELSE {}

\* C13: for a fixed path list, root and file system the set of entry names
\* given to the archive is the same in every run, whatever the order in which
\* the operations settle: at any moment it is the names of the settled paths
\* whose operation did not throw, and at finalize every path has settled.
C13_SameNamesWhateverOrder ==
  /\ EntryNames = UNION { NamesOf(allPaths[i]) : i \in Settled \ errored }
  /\ finalizeCalls >= 1 => Settled = 1..Len(allPaths)

\* the second path has settled and given its entries before the first
C13_Witness ==
  /\ 1 \in runningPromises
  /\ 2 \in Settled \ errored
  /\ NamesOf(allPaths[2]) # {}
  /\ NamesOf(allPaths[1]) # {}
  /\ allPaths[1] # allPaths[2]

\* C14: projectExists(name) is true exactly when the output of `pnpm list
\* --filter name` has a line that begins with the characters of name, taken
\* literally, followed by "@", for every name, those with characters a
\* regular expression reads as a pattern included.
C14_ExactNameMatch ==
  (call.op = "projectExists" /\ call.done) =>
    (call.exists <=>
       \E i \in LineStarts(call.listOutput) :
         OccursAt(call.listOutput, call.projectName \o <<"@">>, i))

\* C15: addToArchive is called with the paths in list order, and while the
\* pump is suspended at the ceiling the settlement of any in-flight operation,
\* not only the oldest, lets it dispatch the next path.
C15_ListOrderAnySettleAdmits ==
  /\ Len(dispatchLog) = nextPath - 1
  /\ dispatchLog = SubSeq(allPaths, 1, Len(dispatchLog))
  /\ (procState = "running" /\ pump = "race") =>
       \A i \in runningPromises : ENABLED (Settle(i) /\ pump' = "dispatch")

\* the pump resumes for the third path after the second settled, the first
\* still in flight
C15_Witness ==
  /\ pump = "dispatch"
  /\ nextPath = 3
  /\ runningPromises = {1}
  /\ dispatchLog = SubSeq(allPaths, 1, 2)

\* C16: archive.finalize is called exactly once, after the list is exhausted
\* and every dispatched operation has settled: the in-flight set is empty
\* then, and no addToArchive is called or settles, so no entry is added, after
\* it.
C16_FinalizeOnceAfterAll ==
  /\ finalizeCalls <= 1
  /\ finalizeCalls = 1 <=> pump \in {"closing", "done"}
  /\ finalizeCalls = 1 =>
       /\ dispatchLog = allPaths
       /\ runningPromises = {}
       /\ ~ENABLED PumpDispatch
       /\ ~ENABLED AddSettles

\* finalize has been called after two paths with entries settled
C16_Witness ==
  /\ finalizeCalls = 1
  /\ pump = "closing"
  /\ Len(allPaths) >= 2
  /\ BagCardinality(entries) >= 2
  /\ procState = "running"

\* the 'end' callback has started: the list is complete
ListComplete == pump \notin {"idle", "listing"}

\* C17: with a ceiling at least the length of the list the pump never
\* suspends on Promise.race, and with an empty list it goes to finalize
\* without calling addToArchive.
C17_NoWaitUnderCeiling ==
  /\ (ListComplete /\ concurrency >= Len(allPaths)) => pump # "race"
  /\ (ListComplete /\ allPaths = <<>>) =>
       /\ dispatchLog = <<>>
       /\ pump \in {"loop", "all", "closing", "done"}
       /\ (procState = "running" /\ pump = "loop") => ENABLED PumpAwaitAll
       /\ (procState = "running" /\ pump = "all") => ENABLED PumpFinalize

\* every path of a list as long as the ceiling is in flight and the loop is over
C17_Witness ==
  /\ concurrency = Len(allPaths)
  /\ pump = "all"
  /\ Cardinality(runningPromises) = MaxConcurrency

\* finalize has been called for an empty list
C17_EmptyList ==
  /\ allPaths = <<>>
  /\ finalizeCalls = 1

\* C18: with a ceiling of at least 1, once stdout has ended and as long as
\* every dispatched operation settles, addToArchive is eventually called for
\* every path and finalize is eventually called: the pump never waits for
\* ever on the in-flight set.  (An operation does not settle when an archive
\* error ends the process while it is in flight.)
C18_EventuallyFinalized ==
  (ListComplete /\ concurrency >= 1) ~>
    \/ finalizeCalls = 1 /\ dispatchLog = allPaths
    \/ archiveFailed /\ runningPromises # {}

\* a run with ceiling 1 has waited for each of three paths and finalized
C18_Witness ==
  /\ concurrency = 1
  /\ Len(allPaths) > MaxLines
  /\ dispatchLog = allPaths
  /\ finalizeCalls = 1
  /\ ~archiveFailed

\* C19: --concurrency reaches the pump unvalidated: with a ceiling of 0 or
\* less and a non-empty list the pump waits on Promise.race over an empty set
\* before the first dispatch, so addToArchive is never called and finalize is
\* never called.
C19_NoCeilingNoProgress ==
  (ListComplete /\ concurrency <= 0 /\ allPaths # <<>>) =>
    /\ dispatchLog = <<>>
    /\ runningPromises = {}
    /\ finalizeCalls = 0
    /\ pump \in {"loop", "race"}
    /\ pump = "race" =>
         ~ENABLED (PumpCheck \/ PumpDispatch \/ PumpAwaitAll \/ PumpFinalize \/ AddSettles)

\* the pump waits on the race over the empty set with a negative ceiling
C19_Witness ==
  /\ concurrency < 0
  /\ pump = "race"
  /\ runningPromises = {}
  /\ Len(allPaths) >= 2

\* no line occurs twice
NoDuplicates(lines) ==
  \A i \in 1..Len(lines), j \in 1..Len(lines) : lines[i] = lines[j] => i = j

\* 7z is spawned only after `pnpm ls` closed with code 0 and the deduplicated
\* list was written, and never after `pnpm ls` closed with another code
SevenAfterList ==
  /\ z7.spawned7z =>
       /\ z7.lsClosed /\ z7.lsCode = 0
       /\ z7.listFile \in {"written", "removed"}
       /\ z7.listContent = JoinLines(z7.uniqueLines)
       /\ NoDuplicates(z7.uniqueLines)
       /\ z7.stdout = <<>>
  /\ (z7.lsClosed /\ z7.lsCode # 0) => ~z7.spawned7z /\ z7.pc = "exited"

====
